---- MODULE Spec2Model ----
(***************************************************************************)
(* Request-processing core of the containerfs data node                    *)
(* (datanode/server_pkg_op.go).  Each connection task carries one request  *)
(* unit (Packet); a handler turns the unit into its reply in place.  Calls *)
(* that leave this file (store engines, buffer pool, connection, disk,     *)
(* master client) are recorded, per request, in the call log `calls`, and  *)
(* their outcomes are inputs chosen by the environment.                    *)
(***************************************************************************)
EXTENDS Integers, Sequences, FiniteSets

\* ---------------------------------------------------------------- bounds

\* util.ReadBlockSize, scaled down: the maximum payload of one stream frame.
ReadBlockSize == 4
\* Largest extent / blob-file identifier a request names.
MaxFileID == 2
\* Largest object id of a blob file.
MaxOid == 2
\* Capacity of a disk's compaction queue.
CompactCap == 2
\* Abstract byte length of an error message packed into a reply.
ErrMsgLen == 3

\* ------------------------------------------------------------- constants

\* util.BlockSize: the size of a pooled full-block buffer.  proto.Buffers
\* serves Get(util.ReadBlockSize) from the same pool, so the two are equal.
BlockSize == ReadBlockSize

\* Length of the big-endian inode hint read by handleCreateFile.
InoLen == 8

Conns == {1, 2}
MainConn == CHOOSE c \in Conns : \A d \in Conns : c <= d

PartitionIds == {1, 2}
DiskPaths == {"disk1", "disk2"}
FileIDs == 1..MaxFileID
Oids == 0..MaxOid

ReadWrite == "ReadWrite"
ReadOnly == "ReadOnly"
Statuses == {ReadWrite, ReadOnly}
Availables == {-1, 0, 1}

BlobStoreMode == "BlobStoreMode"
ExtentStoreMode == "ExtentStoreMode"
StoreModes == {BlobStoreMode, ExtentStoreMode}

OpOk == "OpOk"
OpErr == "OpErr"
OpInit == "OpInit"

\* Error identities carried in an error reply.
ErrorPartitionReadOnly == "ErrorPartitionReadOnly"
ErrSyscallNoSpace == "ErrSyscallNoSpace"
ErrStoreTypeMismatch == "ErrStoreTypeMismatch"
ErrEngine == "engine error"
ErrPartitionNotFound == "partition not found"
ErrDiskNotFound == "disk not found"
ErrPutCompactTask == "cannot add compactTask"
ErrUnmarshal == "unmarshal error"
ErrLocalOid == "localOid below EndObj"
ErrSyncData == "SyncData Error"

\* Status of the response reported to the master.
TaskSuccess == "TaskSuccess"
TaskFail == "TaskFail"
IllegalOpcode == "illegal opcode"
MasterAddrs == {"master1", "master2"}

\* Payload tags of a request unit.
NoData == "none"
Payload == "payload"
Body == "body"
Pooled == "pooled buffer"
Fresh == "fresh buffer"

\* Stream sizes cover 0, a partial chunk, whole chunks and 3 chunks + tail.
MaxStreamSize == 3 * ReadBlockSize + 1
StreamSizes == 0..MaxStreamSize
Offsets == {0, 1}
WriteSizes == {1, BlockSize}
CreateSizes == {0, InoLen}

\* -------------------------------------------------------------- state

VARIABLES
    space,         \* s.space: held partition id -> [status, available, disk]
    disks,         \* disk paths s.space.GetDisk resolves
    store,         \* files the store engines hold: <<partition, mode, file>>
    compactTasks,  \* disk path -> queue of admitted compaction task keys
    masterAddrs,   \* MasterHelper's known master endpoints
    pc,            \* per connection: position of its handler
    pkg,           \* per connection: the request unit, rewritten into the reply
    calls,         \* per connection: external calls of the current request
    local,         \* per connection: the handler's local variables
    conn           \* per connection: frames written and whether it is closed

vars == <<space, disks, store, compactTasks, masterAddrs, pc, pkg, calls, local, conn>>

\* ------------------------------------------------------------ the unit

NewPacket(op, pid, mode, fid, off, size, data) ==
    [Opcode |-> op, PartitionID |-> pid, StoreMode |-> mode, FileID |-> fid,
     Offset |-> off, Size |-> size, ResultCode |-> OpInit, Data |-> data]

IdlePacket == NewPacket("none", 1, ExtentStoreMode, 1, 0, 0, NoData)

PackErrorBody(p, msg) ==
    [p EXCEPT !.ResultCode = OpErr, !.Data = msg, !.Size = ErrMsgLen]

PackOkReply(p) == [p EXCEPT !.ResultCode = OpOk, !.Size = 0]

PackOkReadReply(p) == [p EXCEPT !.ResultCode = OpOk]

PackOkWithBody(p) == [p EXCEPT !.ResultCode = OpOk, !.Data = Body, !.Size = 1]

IsErrPack(p) == p.ResultCode = OpErr

\* One entry of the call log.
Call(fn, args, ok) == [fn |-> fn, args |-> args, ok |-> ok]

\* reqSize is the Size the request arrived with (the unit's Size is
\* overwritten by each frame).  Of an admin request: taskOp is task.OpCode,
\* reqPid is request.PartitionId, reqOk tells that the embedded request was
\* decoded, and wasHeld that the node held partition reqPid when the handler
\* was entered.
NoLocal == [needReplySize |-> 0, offset |-> 0, currReadSize |-> 0, err |-> FALSE,
            reqSize |-> 0, task |-> <<0, 0, 0>>, disk |-> "disk1",
            response |-> [Status |-> "", Result |-> "", PartitionId |-> 0],
            taskOp |-> "", reqPid |-> 0, reqOk |-> FALSE, wasHeld |-> FALSE,
            handler |-> "", orgSize |-> 0, resultSize |-> 0, phase |-> "none"]

\* operatePacket's own locals, kept with the handler's: the handler its
\* switch invoked, orgSize, resultSize, and how far the call has come
\* ("none", "handler", "log" while the deferred function computes the log
\* line, "returned").  l with them set as the switch hands unit p to handler h.
Entered(l, h, p) ==
    [l EXCEPT !.handler = h, !.orgSize = p.Size, !.phase = "handler"]

\* -------------------------------------------------------------- Init

Init ==
    /\ space \in [{1} -> [status : Statuses, available : Availables, disk : DiskPaths]]
    /\ disks = {"disk1"}
    /\ store = {}
    /\ compactTasks = [d \in DiskPaths |-> <<>>]
    /\ masterAddrs = {}
    /\ pc = [c \in Conns |-> "idle"]
    /\ pkg = [c \in Conns |-> IdlePacket]
    /\ calls = [c \in Conns |-> <<>>]
    /\ local = [c \in Conns |-> NoLocal]
    /\ conn = [c \in Conns |-> [frames |-> <<>>, closed |-> FALSE]]

\* The unit's DataPartition was resolved by the caller, so it is a held id.
Held == DOMAIN space

\* A connection task takes its next request only when its previous handler
\* has returned and the connection is still open.
Ready(c) == pc[c] = "idle" /\ ~conn[c].closed

\* The result of a handler that runs to completion in one step: the reply
\* left in the unit, the external calls it made, and the store afterwards.
Result(p, cs, st) == [pkg |-> p, calls |-> cs, store |-> st]

\* Connection c read a request and its handler returned res, leaving l in
\* the handler's locals.
ServedWith(c, res, l) ==
    /\ pkg' = [pkg EXCEPT ![c] = res.pkg]
    /\ calls' = [calls EXCEPT ![c] = res.calls]
    /\ store' = res.store
    /\ local' = [local EXCEPT ![c] = l]
    /\ conn' = [conn EXCEPT ![c].frames = <<>>]
    /\ UNCHANGED <<space, disks, compactTasks, masterAddrs, pc>>

\* Connection c read the request unit p, the switch handed it to handler h,
\* and h returned res.
Served(c, h, p, res) == ServedWith(c, res, Entered(NoLocal, h, p))

\* ------------------------------------------------ PartitionGate handlers

\* Mutant: capacity 0 is admitted.
CreateAdmissionStrict(dp) ==
    IF dp.status = ReadOnly THEN ErrorPartitionReadOnly
    ELSE IF dp.available < 0 THEN ErrSyscallNoSpace
    ELSE ""

\* Admission of handleCreateFile: "" admits, otherwise the error.
CreateAdmission(dp) ==
    IF dp.status = ReadOnly THEN ErrorPartitionReadOnly
    ELSE IF dp.available <= 0 THEN ErrSyscallNoSpace
    ELSE ""

\* Mutant: the capacity check runs before the status check.
WriteAdmissionSpaceFirst(dp) ==
    IF dp.available <= 0 THEN ErrSyscallNoSpace
    ELSE IF dp.status = ReadOnly THEN ErrorPartitionReadOnly
    ELSE ""

\* Admission of handleWrite.
WriteAdmission(dp) ==
    IF dp.status = ReadOnly THEN ErrorPartitionReadOnly
    ELSE IF dp.available <= 0 THEN ErrSyscallNoSpace
    ELSE ""

\* The deferred reply of handleCreateFile and handleWrite.
ReplyOf(p, err) == IF err # "" THEN PackErrorBody(p, err) ELSE PackOkReply(p)

\* The inode hint: the payload's first 8 bytes when it has them, else 0.
InoHint(p, dataLen) == IF dataLen >= InoLen /\ p.Size >= InoLen THEN 1 ELSE 0

\* Mutant: the store-mode switch is missing, every admitted request creates.
handleCreateFileAnyMode(p, dataLen, dp, st, engineOk) ==
    LET adm == CreateAdmission(dp) IN
    IF adm # "" THEN Result(ReplyOf(p, adm), <<>>, st)
    ELSE Result(ReplyOf(p, IF engineOk THEN "" ELSE ErrEngine),
                <<Call("ExtentStore.Create", <<p.FileID, InoHint(p, dataLen)>>, engineOk)>>,
                IF engineOk THEN st \cup {<<p.PartitionID, ExtentStoreMode, p.FileID>>}
                ELSE st)

handleCreateFile(p, dataLen, dp, st, engineOk) ==
    LET adm == CreateAdmission(dp) IN
    IF adm # "" THEN Result(ReplyOf(p, adm), <<>>, st)
    ELSE IF p.StoreMode = BlobStoreMode
    THEN Result(ReplyOf(p, ErrStoreTypeMismatch), <<>>, st)
    ELSE Result(ReplyOf(p, IF engineOk THEN "" ELSE ErrEngine),
                <<Call("ExtentStore.Create", <<p.FileID, InoHint(p, dataLen)>>, engineOk)>>,
                IF engineOk THEN st \cup {<<p.PartitionID, ExtentStoreMode, p.FileID>>}
                ELSE st)

\* The calls made while the unit was read from the connection: a full-block
\* Write arrives in a buffer checked out of proto.Buffers.
ReadFromConn(p) ==
    IF p.Opcode = "OpWrite" /\ p.Size = BlockSize
    THEN <<Call("Buffers.Get", <<BlockSize>>, TRUE)>>
    ELSE <<>>

handleWrite(p, dp, st, engineOk) ==
    LET adm == WriteAdmission(dp)
        pre == ReadFromConn(p)
        err == IF engineOk THEN "" ELSE ErrEngine
        written == IF engineOk
                   THEN st \cup {<<p.PartitionID, p.StoreMode, p.FileID>>}
                   ELSE st
    IN
    IF adm # "" THEN Result(ReplyOf(p, adm), pre, st)
    ELSE IF p.StoreMode = BlobStoreMode
    THEN Result(ReplyOf(p, err),
                pre \o <<Call("BlobStore.Write", <<p.FileID, p.Offset, p.Size>>, engineOk),
                         Call("addDiskErrs", <<p.PartitionID>>, engineOk)>>,
                written)
    ELSE Result(ReplyOf(p, err),
                pre \o <<Call("ExtentStore.Write", <<p.FileID, p.Offset, p.Size>>, engineOk),
                         Call("addDiskErrs", <<p.PartitionID>>, engineOk)>>
                    \o (IF engineOk /\ p.Opcode = "OpWrite" /\ p.Size = BlockSize
                        THEN <<Call("Buffers.Put", <<p.Size>>, TRUE)>>
                        ELSE <<>>),
                written)

\* Mutant: Read is gated like Write.
handleReadGated(p, dp, st, engineOk) ==
    IF WriteAdmission(dp) # ""
    THEN Result(PackErrorBody(p, WriteAdmission(dp)), <<>>, st)
    ELSE Result(IF engineOk THEN PackOkReadReply([p EXCEPT !.Data = Payload])
                ELSE PackErrorBody(p, ErrEngine),
                <<Call("ExtentStore.Read", <<p.FileID, p.Offset, p.Size>>, engineOk),
                  Call("addDiskErrs", <<p.PartitionID>>, engineOk)>>,
                st)

handleRead(p, dp, st, engineOk) ==
    LET fn == IF p.StoreMode = BlobStoreMode THEN "BlobStore.Read" ELSE "ExtentStore.Read"
        q == [p EXCEPT !.Data = Payload]
    IN Result(IF engineOk THEN PackOkReadReply(q) ELSE PackErrorBody(q, ErrEngine),
              <<Call(fn, <<p.FileID, p.Offset, p.Size>>, engineOk),
                Call("addDiskErrs", <<p.PartitionID>>, engineOk)>>,
              st)

handleMarkDelete(p, dp, st, engineOk) ==
    Result(IF engineOk THEN PackOkReply(p) ELSE PackErrorBody(p, ErrEngine),
           IF p.StoreMode = BlobStoreMode
           THEN <<Call("BlobStore.MarkDelete", <<p.FileID, p.Offset, p.Size>>, engineOk)>>
           ELSE <<Call("ExtentStore.MarkDelete", <<p.FileID>>, engineOk)>>,
           IF engineOk THEN st \ {<<p.PartitionID, p.StoreMode, p.FileID>>} ELSE st)

handleGetWatermark(p, dp, st, engineOk) ==
    LET fn == IF p.StoreMode = BlobStoreMode
              THEN "BlobStore.GetWatermark" ELSE "ExtentStore.GetWatermark"
    IN Result(IF engineOk THEN PackOkWithBody(p) ELSE PackErrorBody(p, ErrEngine),
              <<Call(fn, <<p.FileID>>, engineOk)>>, st)

handleExtentStoreGetAllWatermark(p, dp, st, engineOk) ==
    Result(IF engineOk THEN PackOkWithBody(p) ELSE PackErrorBody(p, ErrEngine),
           <<Call("ExtentStore.GetAllWatermark", <<>>, engineOk)>>, st)

handleBlobStoreGetAllWatermark(p, dp, st, engineOk) ==
    Result(IF engineOk THEN PackOkWithBody(p) ELSE PackErrorBody(p, ErrEngine),
           <<Call("BlobStore.GetAllWatermark", <<>>, engineOk)>>, st)

\* Per handler, Serve<Handler>(c, op): connection c read a request unit with
\* opcode op and the switch handed it to the handler.  Per opcode, the action
\* named after it is the switch's case of that opcode.

\* The switch hands the unit of connection c, with opcode op, to
\* handleCreateFile.
ServeCreateFile(c, op) ==
    /\ Ready(c)
    /\ \E pid \in Held, mode \in StoreModes, fid \in FileIDs, size \in CreateSizes,
          dataLen \in CreateSizes, engineOk \in BOOLEAN :
          LET p == NewPacket(op, pid, mode, fid, 0, size, Payload) IN
          Served(c, "handleCreateFile", p,
                 handleCreateFile(p, dataLen, space[pid], store, engineOk))

CreateFile(c) == ServeCreateFile(c, "OpCreateFile")

\* The switch hands the unit of connection c, with opcode op, to handleWrite.
ServeWrite(c, op) ==
    /\ Ready(c)
    /\ \E pid \in Held, mode \in StoreModes, fid \in FileIDs, off \in Offsets,
          size \in WriteSizes, engineOk \in BOOLEAN :
          LET p == NewPacket(op, pid, mode, fid, off, size, Payload) IN
          Served(c, "handleWrite", p,
                 handleWrite(p, space[pid], store, engineOk))

Write(c) == ServeWrite(c, "OpWrite")

\* The switch hands the unit of connection c, with opcode op, to handleRead.
ServeRead(c, op) ==
    /\ Ready(c)
    /\ \E pid \in Held, mode \in StoreModes, fid \in FileIDs, off \in Offsets,
          size \in WriteSizes, engineOk \in BOOLEAN :
          LET p == NewPacket(op, pid, mode, fid, off, size, NoData) IN
          Served(c, "handleRead", p,
                 handleRead(p, space[pid], store, engineOk))

Read(c) == ServeRead(c, "OpRead")

\* The switch hands the unit of connection c, with opcode op, to handleMarkDelete.
ServeMarkDelete(c, op) ==
    /\ Ready(c)
    /\ \E pid \in Held, mode \in StoreModes, fid \in FileIDs, off \in Offsets,
          size \in WriteSizes, engineOk \in BOOLEAN :
          LET p == NewPacket(op, pid, mode, fid, off, size, NoData) IN
          Served(c, "handleMarkDelete", p,
                 handleMarkDelete(p, space[pid], store, engineOk))

MarkDelete(c) == ServeMarkDelete(c, "OpMarkDelete")

\* The switch hands the unit of connection c, with opcode op, to handleGetWatermark.
ServeGetWatermark(c, op) ==
    /\ Ready(c)
    /\ \E pid \in Held, mode \in StoreModes, fid \in FileIDs, engineOk \in BOOLEAN :
          LET p == NewPacket(op, pid, mode, fid, 0, 0, NoData) IN
          Served(c, "handleGetWatermark", p,
                 handleGetWatermark(p, space[pid], store, engineOk))

GetWatermark(c) == ServeGetWatermark(c, "OpGetWatermark")

\* The switch hands the unit of connection c, with opcode op, to
\* handleExtentStoreGetAllWatermark.
ServeExtentStoreGetAllWatermark(c, op) ==
    /\ Ready(c)
    /\ \E pid \in Held, engineOk \in BOOLEAN :
          LET p == NewPacket(op, pid, ExtentStoreMode, 1, 0, 0, NoData) IN
          Served(c, "handleExtentStoreGetAllWatermark", p,
                 handleExtentStoreGetAllWatermark(p, space[pid], store, engineOk))

ExtentStoreGetAllWatermark(c) == ServeExtentStoreGetAllWatermark(c, "OpExtentStoreGetAllWaterMark")

\* The switch hands the unit of connection c, with opcode op, to
\* handleBlobStoreGetAllWatermark.
ServeBlobStoreGetAllWatermark(c, op) ==
    /\ Ready(c)
    /\ \E pid \in Held, engineOk \in BOOLEAN :
          LET p == NewPacket(op, pid, BlobStoreMode, 1, 0, 0, NoData) IN
          Served(c, "handleBlobStoreGetAllWatermark", p,
                 handleBlobStoreGetAllWatermark(p, space[pid], store, engineOk))

BlobStoreGetAllWatermark(c) == ServeBlobStoreGetAllWatermark(c, "OpBlobStoreGetAllWaterMark")

NextGate ==
    \/ CreateFile(MainConn)
    \/ Write(MainConn)
    \/ Read(MainConn)
    \/ MarkDelete(MainConn)
    \/ GetWatermark(MainConn)
    \/ ExtentStoreGetAllWatermark(MainConn)
    \/ BlobStoreGetAllWatermark(MainConn)

SpecGate == Init /\ [][NextGate]_vars

\* ------------------------------------------------ PartitionGate claims

MutatingOps == {"OpCreateFile", "OpWrite"}
BypassOps == {"OpRead", "OpMarkDelete", "OpGetWatermark",
              "OpExtentStoreGetAllWaterMark", "OpBlobStoreGetAllWaterMark"}
MutatingCalls == {"ExtentStore.Create", "ExtentStore.Write", "BlobStore.Write"}
EngineCalls == MutatingCalls \cup
    {"ExtentStore.Read", "BlobStore.Read", "ExtentStore.MarkDelete", "BlobStore.MarkDelete",
     "ExtentStore.GetWatermark", "BlobStore.GetWatermark",
     "ExtentStore.GetAllWatermark", "BlobStore.GetAllWatermark"}

\* The positions of the call log cs that call one of fns.
CallsTo(cs, fns) == {i \in 1..Len(cs) : cs[i].fn \in fns}

\* The partition the unit of connection c addresses.
PartitionOf(c) == space[pkg[c].PartitionID]

\* Connection c holds the reply of a Create or Write request.
Mutating(c) == pkg[c].Opcode \in MutatingOps /\ pkg[c].PartitionID \in Held

\* The reply of connection c is the error reply carrying err, and the
\* request reached no mutating engine call.
RejectedWith(c, err) ==
    /\ IsErrPack(pkg[c])
    /\ pkg[c].Data = err
    /\ CallsTo(calls[c], MutatingCalls) = {}

\* This step handled a Create or Write of connection c on a partition
\* satisfying the state predicate over partitions `on`.
HandledMutatingOn(c, on(_)) ==
    /\ <<pkg[c], calls[c]>>' # <<pkg[c], calls[c]>>
    /\ pkg'[c].Opcode \in MutatingOps
    /\ pkg'[c].PartitionID \in Held
    /\ on(space[pkg'[c].PartitionID])

IsReadOnly(dp) == dp.status = ReadOnly
IsFull(dp) == dp.available <= 0

\* C1: a CreateFile or Write on a ReadOnly partition is answered with the
\* error reply PartitionReadOnly, whatever the store mode, capacity and
\* payload; the engine's Create/Write is not called and the store is left
\* as it was.
C1_ReadOnlyRejected ==
    /\ [](\A c \in Conns : (Mutating(c) /\ IsReadOnly(PartitionOf(c)))
                              => RejectedWith(c, ErrorPartitionReadOnly))
    /\ [][\A c \in Conns : HandledMutatingOn(c, IsReadOnly) => store' = store]_vars

C1_Witness ==
    /\ pkg[MainConn].Opcode = "OpWrite"
    /\ pkg[MainConn].StoreMode = BlobStoreMode
    /\ PartitionOf(MainConn).status = ReadOnly
    /\ PartitionOf(MainConn).available <= 0
    /\ RejectedWith(MainConn, ErrorPartitionReadOnly)

\* C2 as stated: on a partition with available capacity <= 0, ReadOnly or
\* ReadWrite, every CreateFile and Write fails with NoSpace and mutates
\* nothing.
C2_NoSpaceWhateverStatus ==
    \A c \in Conns : (Mutating(c) /\ IsFull(PartitionOf(c)))
                         => RejectedWith(c, ErrSyscallNoSpace)

\* C2 amended: on a partition with available capacity <= 0 every CreateFile
\* and Write is rejected without a store mutation; the error is NoSpace when
\* the partition is ReadWrite and PartitionReadOnly when it is ReadOnly.
C2_NoSpaceRejected ==
    /\ [](\A c \in Conns : (Mutating(c) /\ IsFull(PartitionOf(c)))
            => RejectedWith(c, IF IsReadOnly(PartitionOf(c))
                               THEN ErrorPartitionReadOnly ELSE ErrSyscallNoSpace))
    /\ [][\A c \in Conns : HandledMutatingOn(c, IsFull) => store' = store]_vars

C2_Witness ==
    /\ pkg[MainConn].Opcode = "OpCreateFile"
    /\ pkg[MainConn].StoreMode = ExtentStoreMode
    /\ PartitionOf(MainConn).status = ReadWrite
    /\ PartitionOf(MainConn).available = 0
    /\ RejectedWith(MainConn, ErrSyscallNoSpace)

\* Connection c holds the reply of a CreateFile in Blob store mode.
BlobCreate(c) ==
    /\ pkg[c].Opcode = "OpCreateFile"
    /\ pkg[c].StoreMode = BlobStoreMode
    /\ pkg[c].PartitionID \in Held

\* C3 as stated: a CreateFile in Blob mode fails with StoreTypeMismatch for
\* every partition status and capacity, without calling the engine's Create.
C3_BlobCreateAlwaysMismatch ==
    \A c \in Conns : BlobCreate(c) => RejectedWith(c, ErrStoreTypeMismatch)

\* C3 amended: a CreateFile in Blob mode always fails and never calls the
\* extent engine's Create; the error is StoreTypeMismatch when the partition
\* passes admission (ReadWrite with available capacity > 0), and the
\* admission error (PartitionReadOnly, else NoSpace) otherwise.
C3_BlobCreateRejected ==
    \A c \in Conns : BlobCreate(c) =>
        RejectedWith(c, IF IsReadOnly(PartitionOf(c)) THEN ErrorPartitionReadOnly
                        ELSE IF IsFull(PartitionOf(c)) THEN ErrSyscallNoSpace
                        ELSE ErrStoreTypeMismatch)

C3_Witness ==
    /\ BlobCreate(MainConn)
    /\ PartitionOf(MainConn).status = ReadWrite
    /\ PartitionOf(MainConn).available > 0
    /\ RejectedWith(MainConn, ErrStoreTypeMismatch)

\* C4: the reply of Read, MarkDelete, GetWatermark and the two
\* GetAllWatermark requests is decided by the engine call alone: the engine
\* is always called, whatever the partition's status and capacity, and the
\* reply is Ok exactly when that call succeeded.
C4_BypassAdmission ==
    \A c \in Conns : (pkg[c].Opcode \in BypassOps) =>
        /\ Len(calls[c]) >= 1
        /\ calls[c][1].fn \in EngineCalls \ MutatingCalls
        /\ CallsTo(calls[c], EngineCalls) = {1}
        /\ pkg[c].ResultCode = (IF calls[c][1].ok THEN OpOk ELSE OpErr)
        /\ IsErrPack(pkg[c]) => pkg[c].Data = ErrEngine

C4_Witness ==
    /\ pkg[MainConn].Opcode = "OpRead"
    /\ PartitionOf(MainConn).status = ReadOnly
    /\ PartitionOf(MainConn).available <= 0
    /\ pkg[MainConn].ResultCode = OpOk
    /\ pkg[MainConn].Data = Payload

\* ------------------------------------------------------ StreamTransfer

\* Mutant: the tail chunk is sent as a full chunk.
CurrReadSizeNoTail(needReplySize) == ReadBlockSize

\* currReadSize := uint32(util.Min(int(needReplySize), util.ReadBlockSize))
CurrReadSize(needReplySize) ==
    IF needReplySize < ReadBlockSize THEN needReplySize ELSE ReadBlockSize

\* Mutant: the remaining size is not decreased.
StreamAdvanceOffsetOnly(l) ==
    [l EXCEPT !.offset = l.offset + l.currReadSize]

\* The locals after a frame was sent: needReplySize -= currReadSize,
\* offset += currReadSize.
StreamAdvance(l) ==
    [l EXCEPT !.needReplySize = l.needReplySize - l.currReadSize,
              !.offset = l.offset + l.currReadSize]

\* A frame on the wire: its kind, its payload size, and the store offset its
\* payload was read at.
Frame(kind, size, off) == [kind |-> kind, size |-> size, offset |-> off]

\* The switch hands the unit of connection c, with opcode op, to
\* handleStreamRead; entry: the locals are taken from the request.
ServeStreamRead(c, op) ==
    /\ Ready(c)
    /\ \E pid \in Held, fid \in FileIDs, off \in Offsets, size \in StreamSizes :
        LET p == NewPacket(op, pid, ExtentStoreMode, fid, off, size, NoData) IN
        /\ pkg' = [pkg EXCEPT ![c] = p]
        /\ local' = [local EXCEPT ![c] =
                         Entered([NoLocal EXCEPT !.needReplySize = size, !.offset = off,
                                                 !.reqSize = size],
                                 "handleStreamRead", p)]
    /\ calls' = [calls EXCEPT ![c] = <<>>]
    /\ conn' = [conn EXCEPT ![c].frames = <<>>]
    /\ pc' = [pc EXCEPT ![c] = "stream_loop"]
    /\ UNCHANGED <<space, disks, store, compactTasks, masterAddrs>>

StreamRead(c) == ServeStreamRead(c, "OpStreamRead")

\* The loop's exit: needReplySize <= 0.
StreamLoopExit(c) ==
    /\ pc[c] = "stream_loop"
    /\ local[c].needReplySize <= 0
    /\ pc' = [pc EXCEPT ![c] = "idle"]
    /\ UNCHANGED <<space, disks, store, compactTasks, masterAddrs, pkg, calls, local, conn>>

\* One chunk: the buffer is taken (pooled when the chunk is a full block,
\* freshly made otherwise) and the extent engine reads into it.
StreamReadChunk(c) ==
    /\ pc[c] = "stream_loop"
    /\ local[c].needReplySize > 0
    /\ \E readOk \in BOOLEAN :
        LET curr == CurrReadSize(local[c].needReplySize)
            full == curr = ReadBlockSize
        IN
        /\ pkg' = [pkg EXCEPT ![c].Data = IF full THEN Pooled ELSE Fresh]
        /\ calls' = [calls EXCEPT ![c] =
               @ \o (IF full THEN <<Call("Buffers.Get", <<ReadBlockSize>>, TRUE)>> ELSE <<>>)
                 \o <<Call("ExtentStore.Read",
                           <<pkg[c].FileID, local[c].offset, curr>>, readOk)>>]
        /\ local' = [local EXCEPT ![c].currReadSize = curr, ![c].err = ~readOk]
    /\ pc' = [pc EXCEPT ![c] = "stream_send"]
    /\ UNCHANGED <<space, disks, store, compactTasks, masterAddrs, conn>>

\* Mutant: the return after the error frame is missing, the loop goes on.
StreamSendErrorResume(c) ==
    /\ pc[c] = "stream_send"
    /\ local[c].err
    /\ \E writeOk \in BOOLEAN :
        /\ calls' = [calls EXCEPT ![c] = Append(@, Call("WriteToConn", <<ErrMsgLen>>, writeOk))]
        /\ conn' = [conn EXCEPT ![c].frames =
               IF writeOk THEN Append(@, Frame("error", ErrMsgLen, local[c].offset)) ELSE @]
    /\ pkg' = [pkg EXCEPT ![c] = PackErrorBody(@, ErrEngine)]
    /\ local' = [local EXCEPT ![c] = StreamAdvance(@)]
    /\ pc' = [pc EXCEPT ![c] = "stream_loop"]
    /\ UNCHANGED <<space, disks, store, compactTasks, masterAddrs>>

\* The store read failed: the error frame is the last one; a failed write of
\* it is only logged.
StreamSendError(c) ==
    /\ pc[c] = "stream_send"
    /\ local[c].err
    /\ \E writeOk \in BOOLEAN :
        /\ calls' = [calls EXCEPT ![c] = Append(@, Call("WriteToConn", <<ErrMsgLen>>, writeOk))]
        /\ conn' = [conn EXCEPT ![c].frames =
               IF writeOk THEN Append(@, Frame("error", ErrMsgLen, local[c].offset)) ELSE @]
    /\ pkg' = [pkg EXCEPT ![c] = PackErrorBody(@, ErrEngine)]
    /\ pc' = [pc EXCEPT ![c] = "idle"]
    /\ UNCHANGED <<space, disks, store, compactTasks, masterAddrs, local>>

\* The store read succeeded: the data frame is written; a failed write
\* closes the connection and returns, a successful one advances the locals
\* and returns a pooled buffer.
StreamSendFrame(c) ==
    /\ pc[c] = "stream_send"
    /\ ~local[c].err
    /\ pkg' = [pkg EXCEPT ![c].Size = local[c].currReadSize, ![c].ResultCode = OpOk]
    /\ \E writeOk \in BOOLEAN :
        IF writeOk
        THEN /\ calls' = [calls EXCEPT ![c] =
                    Append(@, Call("WriteToConn", <<local[c].currReadSize>>, TRUE))
                    \o (IF local[c].currReadSize = ReadBlockSize
                        THEN <<Call("Buffers.Put", <<local[c].currReadSize>>, TRUE)>>
                        ELSE <<>>)]
             /\ conn' = [conn EXCEPT ![c].frames =
                    Append(@, Frame("data", local[c].currReadSize, local[c].offset))]
             /\ local' = [local EXCEPT ![c] = StreamAdvance(@)]
             /\ pc' = [pc EXCEPT ![c] = "stream_loop"]
        ELSE /\ calls' = [calls EXCEPT ![c] =
                    Append(@, Call("WriteToConn", <<local[c].currReadSize>>, FALSE))]
             /\ conn' = [conn EXCEPT ![c].closed = TRUE]
             /\ pc' = [pc EXCEPT ![c] = "idle"]
             /\ UNCHANGED local
    /\ UNCHANGED <<space, disks, store, compactTasks, masterAddrs>>

NextStream ==
    \/ StreamRead(MainConn)
    \/ StreamLoopExit(MainConn)
    \/ StreamReadChunk(MainConn)
    \/ StreamSendError(MainConn)
    \/ StreamSendFrame(MainConn)

SpecStream == Init /\ [][NextStream]_vars

\* The connection's task keeps running its handler: a step of the loop that
\* can be taken is taken (the store read and the connection write return).
SpecStreamFair ==
    /\ SpecStream
    /\ WF_vars(StreamLoopExit(MainConn))
    /\ WF_vars(StreamReadChunk(MainConn))
    /\ WF_vars(StreamSendError(MainConn))
    /\ WF_vars(StreamSendFrame(MainConn))

\* ------------------------------------------------ StreamTransfer claims

RECURSIVE SumSizes(_, _)
\* The payload sizes of the first n frames of fr, added up.
SumSizes(fr, n) == IF n = 0 THEN 0 ELSE fr[n].size + SumSizes(fr, n - 1)

Min(a, b) == IF a < b THEN a ELSE b

\* ceil(s / ReadBlockSize)
CeilChunks(s) == (s + ReadBlockSize - 1) \div ReadBlockSize

\* The handler of a StreamRead on connection c has returned and every call
\* it made succeeded.
StreamedAll(c) ==
    /\ pkg[c].Opcode = "OpStreamRead"
    /\ pc[c] = "idle"
    /\ \A i \in 1..Len(calls[c]) : calls[c][i].ok

\* C5: a StreamRead of size S whose reads and writes all succeed has sent
\* ceil(S/C) data frames; frame k carries min(S - (k-1)C, C) bytes read at
\* the request offset plus the sizes of the frames before it, so the sizes
\* sum to S and the frames tile [offset, offset+S).
C5_StreamFrames ==
    \A c \in Conns : StreamedAll(c) =>
        LET fr == conn[c].frames
            S == local[c].reqSize
        IN
        /\ Len(fr) = CeilChunks(S)
        /\ SumSizes(fr, Len(fr)) = S
        /\ \A k \in 1..Len(fr) :
            /\ fr[k].kind = "data"
            /\ fr[k].size = Min(S - (k - 1) * ReadBlockSize, ReadBlockSize)
            /\ fr[k].size > 0
            /\ fr[k].offset = pkg[c].Offset + SumSizes(fr, k - 1)

C5_Witness ==
    /\ StreamedAll(MainConn)
    /\ local[MainConn].reqSize = 3 * ReadBlockSize + 1
    /\ Len(conn[MainConn].frames) = 4
    /\ conn[MainConn].frames[4].size = 1
    /\ conn[MainConn].frames[4].offset = pkg[MainConn].Offset + 3 * ReadBlockSize

\* The handler of connection c has returned from a request that used a
\* pooled buffer: a StreamRead, or a full-block Write in Extent mode.
PoolUserDone(c) ==
    /\ pc[c] = "idle"
    /\ \/ pkg[c].Opcode = "OpStreamRead"
       \/ /\ pkg[c].Opcode = "OpWrite"
          /\ pkg[c].StoreMode = ExtentStoreMode
          /\ CallsTo(calls[c], {"Buffers.Get"}) # {}

\* C9: on every exit path of a StreamRead and of a full-block Extent Write
\* each buffer checked out of the pool has been returned exactly once; a
\* frame's buffer is returned right after the frame's successful write; no
\* partial-size buffer is returned.
C9_BufferPool ==
    \A c \in Conns :
        LET cs == calls[c]
            gets == CallsTo(cs, {"Buffers.Get"})
            puts == CallsTo(cs, {"Buffers.Put"})
        IN
        /\ PoolUserDone(c) => Cardinality(gets) = Cardinality(puts)
        /\ Cardinality(puts) <= Cardinality(gets)
        /\ \A i \in puts :
            /\ cs[i].args = <<BlockSize>>
            /\ pkg[c].Opcode = "OpStreamRead" =>
                   (i > 1 /\ cs[i - 1].fn = "WriteToConn" /\ cs[i - 1].ok)

\* ---------------------------------------------------- RepairCoordinator

\* Mutant: the boundary localOid == EndObj is refused.
LocalOidShortInclusive(localOid, endObj) == localOid <= endObj

\* The gate of the repair-read handshake: localOid < task.EndObj.
LocalOidShort(localOid, endObj) == localOid < endObj

\* task is <<BlobFileId, StartObj, EndObj>>; lastOk and localOid are what
\* GetLastOid returned (its error is not looked at), syncOk what syncData did.
handleBlobFileRepairRead(p, st, decodeOk, task, lastOk, localOid, syncOk) ==
    IF ~decodeOk THEN Result(PackErrorBody(p, ErrUnmarshal), <<>>, st)
    ELSE LET last == Call("BlobStore.GetLastOid", <<task[1], localOid>>, lastOk) IN
         IF LocalOidShort(localOid, task[3])
         THEN Result(PackErrorBody(p, ErrLocalOid), <<last>>, st)
         ELSE Result(IF syncOk THEN p ELSE PackErrorBody(p, ErrSyncData),
                     <<last, Call("syncData", <<task[1], task[2], localOid>>, syncOk)>>,
                     st)

\* The switch hands the unit of connection c, with opcode op, to
\* handleBlobFileRepairRead.
ServeBlobFileRepairRead(c, op) ==
    /\ Ready(c)
    /\ \E pid \in Held, decodeOk \in BOOLEAN, fid \in FileIDs, startObj \in Oids,
          endObj \in Oids, lastOk \in BOOLEAN, localOid \in Oids, syncOk \in BOOLEAN :
          LET task == IF decodeOk THEN <<fid, startObj, endObj>> ELSE NoLocal.task
              p == NewPacket(op, pid, BlobStoreMode, fid, 0, 1, Payload)
          IN
          ServedWith(c,
              handleBlobFileRepairRead(p, store, decodeOk, task, lastOk, localOid, syncOk),
              Entered([NoLocal EXCEPT !.task = task], "handleBlobFileRepairRead", p))

BlobFileRepairRead(c) == ServeBlobFileRepairRead(c, "OpBlobFileRepairRead")

NextRepair == BlobFileRepairRead(MainConn)

SpecRepair == Init /\ [][NextRepair]_vars

\* Connection c holds the outcome of a repair-read whose task was decoded.
RepairHandshake(c) ==
    /\ pkg[c].Opcode = "OpBlobFileRepairRead"
    /\ calls[c] # <<>>
    /\ calls[c][1].fn = "BlobStore.GetLastOid"

\* C6: in the repair-read handshake, localOid < endObj is answered with an
\* error reply and syncData is not called; localOid >= endObj (equality
\* included) calls syncData once, for the objects startObj..localOid of the
\* requested blob file.
C6_RepairGate ==
    \A c \in Conns : RepairHandshake(c) =>
        LET localOid == calls[c][1].args[2]
            task == local[c].task
            syncs == CallsTo(calls[c], {"syncData"})
        IN
        /\ localOid < task[3] =>
               /\ IsErrPack(pkg[c])
               /\ pkg[c].Data = ErrLocalOid
               /\ syncs = {}
               /\ conn[c].frames = <<>>
        /\ localOid >= task[3] =>
               /\ syncs = {2}
               /\ calls[c][2].args = <<task[1], task[2], localOid>>

C6_Witness ==
    /\ RepairHandshake(MainConn)
    /\ local[MainConn].task[3] = MaxOid
    /\ calls[MainConn][1].args[2] = MaxOid
    /\ local[MainConn].task[2] = 1
    /\ CallsTo(calls[MainConn], {"syncData"}) = {2}
    /\ ~IsErrPack(pkg[MainConn])

\* -------------------------------------------------- CompactionAdmission

\* A CompactTask's identity, task.toString(): (partition id, blob-file id).
TaskKey(pid, fid) == <<pid, fid>>

\* d.hasExsitCompactTask(key)
hasExsitCompactTask(q, key) == \E i \in 1..Len(q) : q[i] = key

\* d.putCompactTask(task): "" and the queue with the task, or the error
\* when the disk takes no more tasks.
putCompactTask(q, key) ==
    IF Len(q) < CompactCap
    THEN [err |-> "", queue |-> Append(q, key)]
    ELSE [err |-> ErrPutCompactTask, queue |-> q]

\* Mutant: an unresolvable disk is not noticed.
CompactResolveNoDisk(sp, ds, pid) ==
    IF pid \notin DOMAIN sp THEN ErrPartitionNotFound ELSE ""

\* Lines 468-481: "" when the partition and its disk resolve, else the error.
CompactResolve(sp, ds, pid) ==
    IF pid \notin DOMAIN sp THEN ErrPartitionNotFound
    ELSE IF sp[pid].disk \notin ds THEN ErrDiskNotFound
    ELSE ""

\* The switch hands the unit of connection c, with opcode op, to
\* handleNotifyCompact, which runs up to the resolution of the partition
\* and its disk.
ServeNotifyCompact(c, op) ==
    /\ Ready(c)
    /\ \E pid \in PartitionIds, fid \in FileIDs :
        LET p == NewPacket(op, pid, BlobStoreMode, fid, 0, 0, NoData)
            err == CompactResolve(space, disks, pid)
        IN
        IF err # ""
        THEN /\ pkg' = [pkg EXCEPT ![c] = PackErrorBody(p, err)]
             /\ local' = [local EXCEPT ![c] = Entered(NoLocal, "handleNotifyCompact", p)]
             /\ pc' = pc
        ELSE /\ pkg' = [pkg EXCEPT ![c] = p]
             /\ local' = [local EXCEPT ![c] =
                    Entered([NoLocal EXCEPT !.task = TaskKey(pid, fid),
                                            !.disk = space[pid].disk],
                            "handleNotifyCompact", p)]
             /\ pc' = [pc EXCEPT ![c] = "compact_check"]
    /\ calls' = [calls EXCEPT ![c] = <<>>]
    /\ conn' = [conn EXCEPT ![c].frames = <<>>]
    /\ UNCHANGED <<space, disks, store, compactTasks, masterAddrs>>

NotifyCompact(c) == ServeNotifyCompact(c, "OpNotifyCompactBlobFile")

\* Mutant: the has-task check never finds the task.
CompactCheckMiss(c) ==
    /\ pc[c] = "compact_check"
    /\ calls' = [calls EXCEPT ![c] = Append(@, Call("hasExsitCompactTask", <<>>, FALSE))]
    /\ pc' = [pc EXCEPT ![c] = "compact_put"]
    /\ UNCHANGED <<space, disks, store, compactTasks, masterAddrs, pkg, local, conn>>

\* Line 482: the has-task check, a call of its own on the shared disk.
CompactCheck(c) ==
    /\ pc[c] = "compact_check"
    /\ LET has == hasExsitCompactTask(compactTasks[local[c].disk], local[c].task) IN
        /\ calls' = [calls EXCEPT ![c] = Append(@, Call("hasExsitCompactTask", <<>>, has))]
        /\ IF has
           THEN /\ pkg' = [pkg EXCEPT ![c] = PackOkReply(@)]
                /\ pc' = [pc EXCEPT ![c] = "idle"]
           ELSE /\ pkg' = pkg
                /\ pc' = [pc EXCEPT ![c] = "compact_put"]
    /\ UNCHANGED <<space, disks, store, compactTasks, masterAddrs, local, conn>>

\* Lines 486-493: the enqueue, a second call on the shared disk.  The disk
\* may refuse the task for a reason of its own (refused).
CompactPut(c) ==
    /\ pc[c] = "compact_put"
    /\ \E refused \in BOOLEAN :
        LET q == compactTasks[local[c].disk]
            r == IF refused THEN [err |-> ErrPutCompactTask, queue |-> q]
                 ELSE putCompactTask(q, local[c].task)
        IN
        /\ compactTasks' = [compactTasks EXCEPT ![local[c].disk] = r.queue]
        /\ calls' = [calls EXCEPT ![c] = Append(@, Call("putCompactTask", <<>>, r.err = ""))]
        /\ pkg' = [pkg EXCEPT ![c] = IF r.err # "" THEN PackErrorBody(@, r.err)
                                     ELSE PackOkReply(@)]
    /\ pc' = [pc EXCEPT ![c] = "idle"]
    /\ UNCHANGED <<space, disks, store, masterAddrs, local, conn>>

NextCompact == \E c \in Conns : NotifyCompact(c) \/ CompactCheck(c) \/ CompactPut(c)

SpecCompact == Init /\ [][NextCompact]_vars

\* Sequential use: a notification is handled to its end before any other
\* connection's notification is taken up.
NextCompactSeq ==
    \E c \in Conns :
        /\ \A d \in Conns \ {c} : pc[d] = "idle"
        /\ (NotifyCompact(c) \/ CompactCheck(c) \/ CompactPut(c))

SpecCompactSeq == Init /\ [][NextCompactSeq]_vars

\* The number of tasks with identity key in the queue q.
CountKey(q, key) == Cardinality({i \in 1..Len(q) : q[i] = key})

\* The handler of a compact notification on connection c replied Ok.
NotifiedOk(c) ==
    /\ pkg[c].Opcode = "OpNotifyCompactBlobFile"
    /\ pc[c] = "idle"
    /\ pkg[c].ResultCode = OpOk

\* C7: when two connections have processed notifications with the same
\* (partition id, blob-file id), however their check and enqueue steps
\* interleaved, the disk holds exactly one task with that key.
C7_OneTaskPerKey ==
    \A c1, c2 \in Conns :
        (c1 # c2 /\ NotifiedOk(c1) /\ NotifiedOk(c2) /\ local[c1].task = local[c2].task)
            => CountKey(compactTasks[local[c1].disk], local[c1].task) = 1

\* The compact notification in the unit of connection c names a partition
\* the node does not hold, or one whose disk does not resolve.
Unresolvable(p) ==
    /\ p.Opcode = "OpNotifyCompactBlobFile"
    /\ \/ p.PartitionID \notin Held
       \/ space[p.PartitionID].disk \notin disks

\* C8: a compact notification naming a partition the node does not hold, or
\* whose disk does not resolve, gets the not-found error reply, never
\* reaches the check or the enqueue, and its handling leaves every disk's
\* admitted tasks as they were.
C8_NotFoundNoTask ==
    /\ [](\A c \in Conns : Unresolvable(pkg[c]) =>
             /\ pc[c] = "idle"
             /\ IsErrPack(pkg[c])
             /\ pkg[c].Data = (IF pkg[c].PartitionID \notin Held
                               THEN ErrPartitionNotFound ELSE ErrDiskNotFound)
             /\ calls[c] = <<>>)
    /\ [][\A c \in Conns :
             (Unresolvable(pkg[c])' /\ <<pc[c], pkg[c], calls[c]>>' # <<pc[c], pkg[c], calls[c]>>)
                 => compactTasks' = compactTasks]_vars

C8_Witness ==
    /\ pkg[MainConn].Opcode = "OpNotifyCompactBlobFile"
    /\ pkg[MainConn].PartitionID \notin Held
    /\ IsErrPack(pkg[MainConn])
    /\ pkg[MainConn].Data = ErrPartitionNotFound
    /\ compactTasks["disk1"] # <<>>

\* ----------------------------------------------------- MasterTaskBridge

AdminOps == {"OpCreateDataPartition", "OpDeleteDataPartition",
             "OpLoadDataPartition", "OpDataNodeHeartbeat"}

\* The opcode found in the envelope; "OpNone" is the zero value an
\* undecodable envelope leaves.
TaskOpCodes == AdminOps \cup {"OpNone"}

\* The partition id of the embedded request; 0 is the zero value.
RequestPartitionIds == {0} \cup PartitionIds

Response(status, result, pid) == [Status |-> status, Result |-> result, PartitionId |-> pid]

\* What an admin handler did locally: the response for the master, the
\* partition space and the master endpoints afterwards.
AdminResult(resp, sp, ma) == [response |-> resp, space |-> sp, masterAddrs |-> ma]

\* s.space.CreatePartition: the space holding partition pid.
CreatePartition(sp, pid) ==
    [q \in DOMAIN sp \cup {pid} |->
        IF q \in DOMAIN sp THEN sp[q]
        ELSE [status |-> ReadWrite, available |-> 1, disk |-> "disk1"]]

\* s.space.DeletePartition: the space without partition pid.
DeletePartition(sp, pid) == [q \in DOMAIN sp \ {pid} |-> sp[q]]

handleCreateDataPartition(sp, ma, taskOp, reqPid, createOk) ==
    IF taskOp = "OpCreateDataPartition"
    THEN IF createOk
         THEN AdminResult(Response(TaskSuccess, "", reqPid), CreatePartition(sp, reqPid), ma)
         ELSE AdminResult(Response(TaskFail, "create error", reqPid), sp, ma)
    ELSE AdminResult(Response(TaskFail, IllegalOpcode, 0), sp, ma)

\* Mutant: deleting a partition the node does not hold is reported as a
\* failure.
handleDeleteDataPartitionIfHeld(sp, ma, taskOp, reqPid, decodeOk) ==
    IF taskOp = "OpDeleteDataPartition"
    THEN IF ~decodeOk
         THEN AdminResult(Response(TaskFail, ErrUnmarshal, reqPid), sp, ma)
         ELSE IF reqPid \notin DOMAIN sp
         THEN AdminResult(Response(TaskFail, ErrPartitionNotFound, reqPid), sp, ma)
         ELSE AdminResult(Response(TaskSuccess, "", reqPid), DeletePartition(sp, reqPid), ma)
    ELSE AdminResult(Response(TaskFail, IllegalOpcode, 0), sp, ma)

\* Mutant: the envelope's opcode is not compared, the partition is deleted.
handleDeleteDataPartitionAnyTask(sp, ma, taskOp, reqPid, decodeOk) ==
    IF ~decodeOk
    THEN AdminResult(Response(TaskFail, ErrUnmarshal, reqPid), sp, ma)
    ELSE AdminResult(Response(TaskSuccess, "", reqPid), DeletePartition(sp, reqPid), ma)

handleDeleteDataPartition(sp, ma, taskOp, reqPid, decodeOk) ==
    IF taskOp = "OpDeleteDataPartition"
    THEN IF ~decodeOk
         THEN AdminResult(Response(TaskFail, ErrUnmarshal, reqPid), sp, ma)
         ELSE AdminResult(Response(TaskSuccess, "", reqPid), DeletePartition(sp, reqPid), ma)
    ELSE AdminResult(Response(TaskFail, IllegalOpcode, 0), sp, ma)

handleLoadDataPartition(sp, ma, taskOp, reqPid, loadOk) ==
    IF taskOp = "OpLoadDataPartition"
    THEN IF reqPid \notin DOMAIN sp
         THEN AdminResult(Response(TaskFail, "dataPartition not found", reqPid), sp, ma)
         ELSE AdminResult(Response(IF loadOk THEN TaskSuccess ELSE TaskFail,
                                   IF loadOk THEN "" ELSE "load error", reqPid), sp, ma)
    ELSE AdminResult(Response(TaskFail, IllegalOpcode, 0), sp, ma)

handleHeartbeats(sp, ma, taskOp, addr) ==
    IF taskOp = "OpDataNodeHeartbeat"
    THEN AdminResult(Response(TaskSuccess, "", 0), sp, ma \cup {addr})
    ELSE AdminResult(Response(TaskFail, IllegalOpcode, 0), sp, ma)

\* Mutant: a failed report is sent a second time.
ReportToMasterRetry(cs, reportOk) ==
    IF reportOk THEN Append(cs, Call("MasterHelper.Request", <<>>, TRUE))
    ELSE cs \o <<Call("MasterHelper.Request", <<>>, FALSE),
                 Call("MasterHelper.Request", <<>>, TRUE)>>

\* MasterHelper.Request("POST", master.DataNodeResponse, nil, data): one
\* call; its error is logged.
ReportToMaster(cs, reportOk) == Append(cs, Call("MasterHelper.Request", <<>>, reportOk))

\* The envelope of an admin request as the handler decoded it.
Envelope(taskOp, reqPid, reqOk) == [taskOp |-> taskOp, reqPid |-> reqPid, reqOk |-> reqOk]

\* The unit of an admin request with opcode op: the payload is the envelope.
AdminPacket(op) == NewPacket(op, 0, ExtentStoreMode, 0, 0, 1, Payload)

\* Connection c read the admin request with opcode op and envelope env and
\* the switch handed it to handler h; PackOkReply ran right after the
\* envelope was decoded, the local operation gave r, and the task with its
\* response was reported to the master unless `marshalled` is false.
AdminServed(c, h, op, env, r, marshalled, reportOk) ==
    /\ pkg' = [pkg EXCEPT ![c] = PackOkReply(AdminPacket(op))]
    /\ local' = [local EXCEPT ![c] =
                     Entered([NoLocal EXCEPT !.response = r.response,
                                             !.taskOp = env.taskOp,
                                             !.reqPid = env.reqPid,
                                             !.reqOk = env.reqOk,
                                             !.wasHeld = env.reqPid \in DOMAIN space],
                             h, AdminPacket(op))]
    /\ space' = r.space
    /\ masterAddrs' = r.masterAddrs
    /\ calls' = [calls EXCEPT ![c] = IF marshalled THEN ReportToMaster(<<>>, reportOk) ELSE <<>>]
    /\ conn' = [conn EXCEPT ![c].frames = <<>>]
    /\ UNCHANGED <<disks, store, compactTasks, pc>>

\* The switch hands the unit of connection c, with opcode op, to
\* handleCreateDataPartition.
ServeCreateDataPartition(c, op) ==
    /\ Ready(c)
    /\ \E taskOp \in TaskOpCodes, reqPid \in RequestPartitionIds,
          createOk \in BOOLEAN, reportOk \in BOOLEAN :
          AdminServed(c, "handleCreateDataPartition", op, Envelope(taskOp, reqPid, TRUE),
              handleCreateDataPartition(space, masterAddrs, taskOp, reqPid, createOk),
              TRUE, reportOk)

CreateDataPartition(c) == ServeCreateDataPartition(c, "OpCreateDataPartition")

\* The switch hands the unit of connection c, with opcode op, to
\* handleDeleteDataPartition.
ServeDeleteDataPartition(c, op) ==
    /\ Ready(c)
    /\ \E taskOp \in TaskOpCodes, reqPid \in RequestPartitionIds,
          decodeOk \in BOOLEAN, reportOk \in BOOLEAN :
          AdminServed(c, "handleDeleteDataPartition", op, Envelope(taskOp, reqPid, decodeOk),
              handleDeleteDataPartition(space, masterAddrs, taskOp, reqPid, decodeOk),
              TRUE, reportOk)

DeleteDataPartition(c) == ServeDeleteDataPartition(c, "OpDeleteDataPartition")

\* The switch hands the unit of connection c, with opcode op, to
\* handleLoadDataPartition.
ServeLoadDataPartition(c, op) ==
    /\ Ready(c)
    /\ \E taskOp \in TaskOpCodes, reqPid \in RequestPartitionIds,
          loadOk \in BOOLEAN, reportOk \in BOOLEAN :
          AdminServed(c, "handleLoadDataPartition", op, Envelope(taskOp, reqPid, TRUE),
              handleLoadDataPartition(space, masterAddrs, taskOp, reqPid, loadOk),
              TRUE, reportOk)

LoadDataPartition(c) == ServeLoadDataPartition(c, "OpLoadDataPartition")

\* The switch hands the unit of connection c, with opcode op, to
\* handleHeartbeats, which returns without reporting when the task cannot be
\* marshalled.
ServeDataNodeHeartbeat(c, op) ==
    /\ Ready(c)
    /\ \E taskOp \in TaskOpCodes, addr \in MasterAddrs,
          marshalOk \in BOOLEAN, reportOk \in BOOLEAN :
          AdminServed(c, "handleHeartbeats", op, Envelope(taskOp, 0, TRUE),
              handleHeartbeats(space, masterAddrs, taskOp, addr),
              marshalOk, reportOk)

DataNodeHeartbeat(c) == ServeDataNodeHeartbeat(c, "OpDataNodeHeartbeat")

NextAdmin ==
    \/ CreateDataPartition(MainConn)
    \/ DeleteDataPartition(MainConn)
    \/ LoadDataPartition(MainConn)
    \/ DataNodeHeartbeat(MainConn)

SpecAdmin == Init /\ [][NextAdmin]_vars

\* The reports of the current request of connection c to the master.
Reports(c) == CallsTo(calls[c], {"MasterHelper.Request"})

\* C10: the reply an admin operation leaves in the request unit is the Ok
\* reply with an empty body, whatever the envelope held, the local
\* operation did and the report to the master did; the Success/Fail status
\* is in the response for the master only, which is sent at most once.
C10_AdminAlwaysOk ==
    \A c \in Conns : (pkg[c].Opcode \in AdminOps) =>
        /\ pkg[c].ResultCode = OpOk
        /\ pkg[c].Size = 0
        /\ pkg[c].Data = Payload
        /\ local[c].response.Status \in {TaskSuccess, TaskFail}
        /\ Cardinality(Reports(c)) <= 1

C10_Witness ==
    /\ pkg[MainConn].Opcode = "OpCreateDataPartition"
    /\ pkg[MainConn].ResultCode = OpOk
    /\ local[MainConn].response.Status = TaskFail
    /\ local[MainConn].response.Result = "create error"
    /\ Reports(MainConn) = {1}
    /\ ~calls[MainConn][1].ok

\* ----------------------------------- StreamTransfer: failures in a stream

\* The positions in the call log of connection c of the connection writes
\* that failed.
FailedWrites(c) ==
    {i \in CallsTo(calls[c], {"WriteToConn"}) : ~calls[c][i].ok}

\* C11: during a StreamRead, a failed connection write of any frame, data
\* frame or error frame, closes the connection, and is the handler's last
\* call: no frame is written and no store read is made after it.
C11_WriteFailureCloses ==
    \A c \in Conns : pkg[c].Opcode = "OpStreamRead" =>
        \A i \in FailedWrites(c) :
            /\ conn[c].closed
            /\ pc[c] = "idle"
            /\ i = Len(calls[c])

\* The positions in the call log of connection c of the store reads that
\* failed.
FailedReads(c) ==
    {i \in CallsTo(calls[c], {"ExtentStore.Read"}) : ~calls[c][i].ok}

\* The positions of the store reads that succeeded before position i.
ReadsBefore(c, i) ==
    {j \in CallsTo(calls[c], {"ExtentStore.Read"}) : j < i /\ calls[c][j].ok}

\* C12: in a StreamRead a failed store read is answered by exactly one write
\* of an error frame, which is the handler's last call: no store read and no
\* frame follows it. The frames on the connection are the data frames of the
\* chunks read before the failure, one per successful read and carrying that
\* read's offset and size, followed by the error frame as the last frame
\* (the error frame is on the connection when its write succeeded).
C12_ErrorFrameTerminal ==
    \A c \in Conns : pkg[c].Opcode = "OpStreamRead" =>
        \A i \in FailedReads(c) :
            LET cs == calls[c]
                fr == conn[c].frames
                nd == Cardinality(ReadsBefore(c, i))
            IN
            /\ FailedReads(c) = {i}
            /\ IF pc[c] = "stream_send"
               THEN /\ i = Len(cs)
                    /\ Len(fr) = nd
               ELSE /\ pc[c] = "idle"
                    /\ Len(cs) = i + 1
                    /\ cs[i + 1].fn = "WriteToConn"
                    /\ cs[i + 1].args = <<ErrMsgLen>>
                    /\ IsErrPack(pkg[c])
                    /\ Len(fr) = nd + (IF cs[i + 1].ok THEN 1 ELSE 0)
                    /\ cs[i + 1].ok => fr[Len(fr)].kind = "error"
            /\ \A k \in 1..nd :
                /\ fr[k].kind = "data"
                /\ \E j \in ReadsBefore(c, i) :
                    /\ Cardinality(ReadsBefore(c, j)) = k - 1
                    /\ cs[j].args = <<pkg[c].FileID, fr[k].offset, fr[k].size>>

C12_Witness ==
    /\ pkg[MainConn].Opcode = "OpStreamRead"
    /\ pc[MainConn] = "idle"
    /\ FailedReads(MainConn) # {}
    /\ Len(conn[MainConn].frames) = 3
    /\ conn[MainConn].frames[1].kind = "data"
    /\ conn[MainConn].frames[2].kind = "data"
    /\ conn[MainConn].frames[3].kind = "error"

\* ------------------------------------------- PartitionGate: error counter

\* C13: every Write handled by handleWrite, an admission rejection included,
\* has made exactly one call of addDiskErrs, for the unit's partition and
\* with the outcome the reply reports.
C13_WriteRecorded ==
    \A c \in Conns : (pkg[c].Opcode = "OpWrite" /\ pc[c] = "idle") =>
        LET recs == CallsTo(calls[c], {"addDiskErrs"}) IN
        /\ Cardinality(recs) = 1
        /\ \A i \in recs :
            /\ calls[c][i].args = <<pkg[c].PartitionID>>
            /\ calls[c][i].ok = ~IsErrPack(pkg[c])

\* ------------------------------------- RepairCoordinator: GetLastOid error

\* C20: a repair-read whose GetLastOid call returned an error is answered
\* with an error reply and makes no syncData call, whatever range the task
\* names (EndObj = 0 included).
C20_LastOidErrorRefused ==
    \A c \in Conns : (RepairHandshake(c) /\ ~calls[c][1].ok) =>
        /\ IsErrPack(pkg[c])
        /\ CallsTo(calls[c], {"syncData"}) = {}

\* ------------------------------------- MasterTaskBridge: envelope opcode

\* Connection c holds the outcome of an admin request whose envelope embeds
\* an opcode other than the request's own.
EnvelopeMismatch(c) ==
    /\ pkg[c].Opcode \in AdminOps
    /\ local[c].taskOp # pkg[c].Opcode

\* C14: an admin request whose envelope embeds another opcode gets the
\* response Fail with the "illegal opcode" message, which is what is reported
\* to the master, and the step that handles it leaves the partition space
\* and the set of master endpoints as they were.
C14_IllegalOpcode ==
    /\ [](\A c \in Conns : EnvelopeMismatch(c) =>
            /\ local[c].response.Status = TaskFail
            /\ local[c].response.Result = IllegalOpcode
            /\ pkg[c].Opcode # "OpDataNodeHeartbeat" => Cardinality(Reports(c)) = 1)
    /\ [][\A c \in Conns : EnvelopeMismatch(c)' =>
            /\ space' = space
            /\ masterAddrs' = masterAddrs]_vars

\* A delete-partition request that names the held partition 1 inside an
\* envelope for another operation: the partition is still held.
C14_Witness ==
    /\ EnvelopeMismatch(MainConn)
    /\ pkg[MainConn].Opcode = "OpDeleteDataPartition"
    /\ local[MainConn].taskOp = "OpCreateDataPartition"
    /\ local[MainConn].reqPid = 1
    /\ local[MainConn].wasHeld
    /\ 1 \in DOMAIN space
    /\ local[MainConn].response.Result = IllegalOpcode

\* ----------------------------------- MasterTaskBridge: delete-partition

\* Connection c holds the outcome of a delete-partition request whose
\* envelope and embedded request were well formed.
WellFormedDelete(c) ==
    /\ pkg[c].Opcode = "OpDeleteDataPartition"
    /\ local[c].taskOp = "OpDeleteDataPartition"
    /\ local[c].reqOk

\* C15: after any sequence of admin operations a well-formed delete-partition
\* request is reported to the master as Success for the id it names, held or
\* not, and leaves the partition space without that id and otherwise as it
\* was; a second delete of the same id right after it is Success again and
\* changes nothing.
C15_DeleteIdempotent ==
    /\ [](\A c \in Conns : WellFormedDelete(c) =>
            /\ local[c].response = Response(TaskSuccess, "", local[c].reqPid)
            /\ Cardinality(Reports(c)) = 1
            /\ local[c].reqPid \notin DOMAIN space)
    /\ [][\A c \in Conns : WellFormedDelete(c)' =>
            /\ DOMAIN space' = DOMAIN space \ {local'[c].reqPid}
            /\ \A q \in DOMAIN space' : space'[q] = space[q]
            /\ (WellFormedDelete(c) /\ local[c].reqPid = local'[c].reqPid) =>
                   /\ space' = space
                   /\ ~local'[c].wasHeld
                   /\ local'[c].response.Status = TaskSuccess]_vars

\* A delete of partition 2 that the node did not hold, reported as Success
\* while partition 1 is still held.
C15_Witness ==
    /\ WellFormedDelete(MainConn)
    /\ local[MainConn].reqPid = 2
    /\ ~local[MainConn].wasHeld
    /\ local[MainConn].response.Status = TaskSuccess
    /\ DOMAIN space = {1}

\* ------------------------------- CompactionNotifier: sequential notifies

\* The handler of a compact notification on connection c has returned after
\* resolving the partition's disk.
NotifyReturned(c) ==
    /\ pkg[c].Opcode = "OpNotifyCompactBlobFile"
    /\ pc[c] = "idle"
    /\ calls[c] # <<>>

\* C19: when notifications are handled one after the other, every disk
\* holds at most one admitted task per key; a notification whose key is
\* already admitted replies Ok without an enqueue and leaves the disk's tasks
\* as they were; a notification whose enqueue fails replies with the
\* enqueue's error and leaves the tasks as they were; one whose enqueue
\* succeeds replies Ok with its key admitted.
C19_SequentialNotify ==
    /\ [](\A d \in DiskPaths : \A i, j \in 1..Len(compactTasks[d]) :
            compactTasks[d][i] = compactTasks[d][j] => i = j)
    /\ [](\A c \in Conns : NotifyReturned(c) =>
            /\ calls[c][1].fn = "hasExsitCompactTask"
            /\ IF calls[c][1].ok
               THEN /\ Len(calls[c]) = 1
                    /\ pkg[c].ResultCode = OpOk
               ELSE /\ Len(calls[c]) = 2
                    /\ calls[c][2].fn = "putCompactTask"
                    /\ IF calls[c][2].ok
                       THEN /\ pkg[c].ResultCode = OpOk
                            /\ hasExsitCompactTask(compactTasks[local[c].disk],
                                                   local[c].task)
                       ELSE /\ IsErrPack(pkg[c])
                            /\ pkg[c].Data = ErrPutCompactTask)
    /\ [][\A c \in Conns :
            /\ (pc[c] = "compact_check" /\ pc'[c] = "idle") =>
                   /\ hasExsitCompactTask(compactTasks[local[c].disk], local[c].task)
                   /\ compactTasks' = compactTasks
                   /\ pkg'[c].ResultCode = OpOk
            /\ (pc[c] = "compact_put" /\ IsErrPack(pkg'[c])) =>
                   compactTasks' = compactTasks]_vars

\* A second notification of an admitted key was answered Ok by the check
\* alone, with the key's one task still on the disk.
C19_Witness ==
    /\ NotifyReturned(MainConn)
    /\ Len(calls[MainConn]) = 1
    /\ calls[MainConn][1].ok
    /\ pkg[MainConn].ResultCode = OpOk
    /\ compactTasks[local[MainConn].disk] = <<local[MainConn].task>>

\* A notification whose enqueue failed was answered with the error.
C19_EnqueueFailed ==
    /\ NotifyReturned(MainConn)
    /\ Len(calls[MainConn]) = 2
    /\ ~calls[MainConn][2].ok
    /\ IsErrPack(pkg[MainConn])

\* --------------------------------------- StreamTransfer: loop termination

\* Every call of the current request of connection c before position n
\* succeeded.
AllOkBefore(c, n) == \A i \in 1..(n - 1) : calls[c][i].ok

\* C18: the loop of a StreamRead of size S terminates whatever the store
\* reads and connection writes do.  The remaining size stays within 0..S and
\* is S less the bytes of the frames sent; an iteration that sent its frame
\* decreases it by the chunk size, which is positive and not more than what
\* remained; at most ceil(S/C) frames are sent; the handler returns either
\* with remaining = 0 and no failed call, or at its first failed call, which
\* is a store read followed by the error frame's write or a frame's write.
C18_StreamTerminates ==
    /\ [](\A c \in Conns : pkg[c].Opcode = "OpStreamRead" =>
            LET l == local[c]
                fr == conn[c].frames
                nfail == Cardinality({i \in 1..Len(calls[c]) : ~calls[c][i].ok})
            IN
            /\ l.needReplySize >= 0
            /\ l.needReplySize <= l.reqSize
            /\ Len(fr) <= CeilChunks(l.reqSize)
            /\ Len(fr) = 0 \/ l.reqSize > 0
            /\ pc[c] = "idle" =>
                \/ /\ l.needReplySize = 0
                   /\ AllOkBefore(c, Len(calls[c]) + 1)
                   /\ SumSizes(fr, Len(fr)) = l.reqSize
                \/ /\ l.needReplySize > 0
                   /\ calls[c] # <<>>
                   /\ calls[c][Len(calls[c])].fn = "WriteToConn"
                   /\ \/ /\ ~calls[c][Len(calls[c])].ok
                         /\ AllOkBefore(c, Len(calls[c]))
                      \/ /\ Len(calls[c]) > 1
                         /\ calls[c][Len(calls[c]) - 1].fn = "ExtentStore.Read"
                         /\ ~calls[c][Len(calls[c]) - 1].ok
                         /\ AllOkBefore(c, Len(calls[c]) - 1))
    /\ [][\A c \in Conns : (pc[c] = "stream_send" /\ pc'[c] = "stream_loop") =>
            /\ local[c].currReadSize > 0
            /\ local[c].currReadSize <= local[c].needReplySize
            /\ local'[c].needReplySize = local[c].needReplySize - local[c].currReadSize
            /\ local'[c].needReplySize < local[c].needReplySize]_vars
    /\ \A c \in Conns : (pc[c] # "idle") ~> (pc[c] = "idle")

\* A stream of three chunks and a tail that ended at the failed write of its
\* fourth frame, with the tail still remaining.
C18_Witness ==
    /\ pkg[MainConn].Opcode = "OpStreamRead"
    /\ pc[MainConn] = "idle"
    /\ local[MainConn].reqSize = MaxStreamSize
    /\ Len(conn[MainConn].frames) = 3
    /\ local[MainConn].needReplySize = 1
    /\ conn[MainConn].closed

\* ------------------------------------------------------- RequestDispatcher

\* The closed set of opcodes operatePacket's switch names.
Opcodes ==
    {"OpCreateFile", "OpWrite", "OpRead", "OpBlobFileRepairRead", "OpStreamRead",
     "OpMarkDelete", "OpNotifyCompactBlobFile", "OpNotifyExtentRepair",
     "OpNotifyBlobRepair", "OpGetWatermark", "OpExtentStoreGetAllWaterMark",
     "OpBlobStoreGetAllWaterMark", "OpCreateDataPartition", "OpLoadDataPartition",
     "OpDeleteDataPartition", "OpDataNodeHeartbeat", "OpGetDataPartitionMetrics"}

\* strconv.Itoa for a non-negative number: its decimal digits.
RECURSIVE Itoa(_)
Itoa(n) ==
    LET digit == <<"0", "1", "2", "3", "4", "5", "6", "7", "8", "9">>[(n % 10) + 1] IN
    IF n < 10 THEN digit ELSE Itoa(n \div 10) \o digit

\* Opcode bytes outside the closed set, and the name the model gives the
\* opcode with byte n.
UnknownOpcodeBytes == {7, 240, 255}
OpName(n) == "Op#" \o Itoa(n)
UnknownOpcodes == {OpName(n) : n \in UnknownOpcodeBytes}

\* int(pkg.Opcode) of an opcode outside the closed set.
OpcodeByte(op) == CHOOSE n \in UnknownOpcodeBytes : OpName(n) = op

RequestOpcodes == Opcodes \cup UnknownOpcodes

ErrorUnknownOp == "unknown opcode: "

handleNotifyExtentRepair(p, st, decodeOk) ==
    IF ~decodeOk THEN Result(PackErrorBody(p, ErrUnmarshal), <<>>, st)
    ELSE Result(PackOkReply(p), <<Call("MergeExtentStoreRepair", <<>>, TRUE)>>, st)

handleNotifyBlobRepair(p, st, decodeOk) ==
    IF ~decodeOk THEN Result(PackErrorBody(p, ErrUnmarshal), <<>>, st)
    ELSE Result(PackOkReply(p), <<Call("MergeBlobStoreRepair", <<>>, TRUE)>>, st)

handleGetDataPartitionMetrics(p, st, marshalOk) ==
    IF ~marshalOk THEN Result(PackErrorBody(p, "json mashal failed"), <<>>, st)
    ELSE Result(PackOkWithBody(p), <<>>, st)

\* The switch hands the unit of connection c, with opcode op, to
\* handleNotifyExtentRepair.
ServeNotifyExtentRepair(c, op) ==
    /\ Ready(c)
    /\ \E pid \in Held, decodeOk \in BOOLEAN :
          LET p == NewPacket(op, pid, ExtentStoreMode, 1, 0, 1, Payload) IN
          Served(c, "handleNotifyExtentRepair", p,
                 handleNotifyExtentRepair(p, store, decodeOk))

\* The switch hands the unit of connection c, with opcode op, to
\* handleNotifyBlobRepair.
ServeNotifyBlobRepair(c, op) ==
    /\ Ready(c)
    /\ \E pid \in Held, decodeOk \in BOOLEAN :
          LET p == NewPacket(op, pid, BlobStoreMode, 1, 0, 1, Payload) IN
          Served(c, "handleNotifyBlobRepair", p,
                 handleNotifyBlobRepair(p, store, decodeOk))

\* The switch hands the unit of connection c, with opcode op, to
\* handleGetDataPartitionMetrics.
ServeGetDataPartitionMetrics(c, op) ==
    /\ Ready(c)
    /\ \E pid \in Held, marshalOk \in BOOLEAN :
          LET p == NewPacket(op, pid, ExtentStoreMode, 1, 0, 0, NoData) IN
          Served(c, "handleGetDataPartitionMetrics", p,
                 handleGetDataPartitionMetrics(p, store, marshalOk))

\* The switch's default branch: no handler, the error reply names the opcode
\* by its number.
ServeDefault(c, op) ==
    /\ Ready(c)
    /\ \E pid \in Held, size \in WriteSizes :
          LET p == NewPacket(op, pid, ExtentStoreMode, 1, 0, size, Payload) IN
          Served(c, "", p,
                 Result(PackErrorBody(p, ErrorUnknownOp \o Itoa(OpcodeByte(op))),
                        <<>>, store))

\* Mutant: the case of OpRead calls handleWrite.
HandlerOfReadAsWrite(op) ==
    CASE op = "OpCreateFile" -> "handleCreateFile"
      [] op = "OpWrite" -> "handleWrite"
      [] op = "OpRead" -> "handleWrite"
      [] op = "OpBlobFileRepairRead" -> "handleBlobFileRepairRead"
      [] op = "OpStreamRead" -> "handleStreamRead"
      [] op = "OpMarkDelete" -> "handleMarkDelete"
      [] op = "OpNotifyCompactBlobFile" -> "handleNotifyCompact"
      [] op = "OpNotifyExtentRepair" -> "handleNotifyExtentRepair"
      [] op = "OpNotifyBlobRepair" -> "handleNotifyBlobRepair"
      [] op = "OpGetWatermark" -> "handleGetWatermark"
      [] op = "OpExtentStoreGetAllWaterMark" -> "handleExtentStoreGetAllWatermark"
      [] op = "OpBlobStoreGetAllWaterMark" -> "handleBlobStoreGetAllWatermark"
      [] op = "OpCreateDataPartition" -> "handleCreateDataPartition"
      [] op = "OpLoadDataPartition" -> "handleLoadDataPartition"
      [] op = "OpDeleteDataPartition" -> "handleDeleteDataPartition"
      [] op = "OpDataNodeHeartbeat" -> "handleHeartbeats"
      [] op = "OpGetDataPartitionMetrics" -> "handleGetDataPartitionMetrics"
      [] OTHER -> ""

\* The switch of operatePacket: the handler of the case that matches op, ""
\* for the default branch.
HandlerOf(op) ==
    CASE op = "OpCreateFile" -> "handleCreateFile"
      [] op = "OpWrite" -> "handleWrite"
      [] op = "OpRead" -> "handleRead"
      [] op = "OpBlobFileRepairRead" -> "handleBlobFileRepairRead"
      [] op = "OpStreamRead" -> "handleStreamRead"
      [] op = "OpMarkDelete" -> "handleMarkDelete"
      [] op = "OpNotifyCompactBlobFile" -> "handleNotifyCompact"
      [] op = "OpNotifyExtentRepair" -> "handleNotifyExtentRepair"
      [] op = "OpNotifyBlobRepair" -> "handleNotifyBlobRepair"
      [] op = "OpGetWatermark" -> "handleGetWatermark"
      [] op = "OpExtentStoreGetAllWaterMark" -> "handleExtentStoreGetAllWatermark"
      [] op = "OpBlobStoreGetAllWaterMark" -> "handleBlobStoreGetAllWatermark"
      [] op = "OpCreateDataPartition" -> "handleCreateDataPartition"
      [] op = "OpLoadDataPartition" -> "handleLoadDataPartition"
      [] op = "OpDeleteDataPartition" -> "handleDeleteDataPartition"
      [] op = "OpDataNodeHeartbeat" -> "handleHeartbeats"
      [] op = "OpGetDataPartitionMetrics" -> "handleGetDataPartitionMetrics"
      [] OTHER -> ""

\* The unit of connection c, with opcode op, goes to the handler the switch
\* selects.
Switch(c, op) ==
    LET h == HandlerOf(op) IN
    \/ h = "handleCreateFile" /\ ServeCreateFile(c, op)
    \/ h = "handleWrite" /\ ServeWrite(c, op)
    \/ h = "handleRead" /\ ServeRead(c, op)
    \/ h = "handleBlobFileRepairRead" /\ ServeBlobFileRepairRead(c, op)
    \/ h = "handleStreamRead" /\ ServeStreamRead(c, op)
    \/ h = "handleMarkDelete" /\ ServeMarkDelete(c, op)
    \/ h = "handleNotifyCompact" /\ ServeNotifyCompact(c, op)
    \/ h = "handleNotifyExtentRepair" /\ ServeNotifyExtentRepair(c, op)
    \/ h = "handleNotifyBlobRepair" /\ ServeNotifyBlobRepair(c, op)
    \/ h = "handleGetWatermark" /\ ServeGetWatermark(c, op)
    \/ h = "handleExtentStoreGetAllWatermark" /\ ServeExtentStoreGetAllWatermark(c, op)
    \/ h = "handleBlobStoreGetAllWatermark" /\ ServeBlobStoreGetAllWatermark(c, op)
    \/ h = "handleCreateDataPartition" /\ ServeCreateDataPartition(c, op)
    \/ h = "handleLoadDataPartition" /\ ServeLoadDataPartition(c, op)
    \/ h = "handleDeleteDataPartition" /\ ServeDeleteDataPartition(c, op)
    \/ h = "handleHeartbeats" /\ ServeDataNodeHeartbeat(c, op)
    \/ h = "handleGetDataPartitionMetrics" /\ ServeGetDataPartitionMetrics(c, op)
    \/ h = "" /\ ServeDefault(c, op)

\* operatePacket is called with the first request unit of connection c.
operatePacket(c) ==
    /\ local[c].phase = "none"
    /\ \E op \in RequestOpcodes : Switch(c, op)

\* The log call of the deferred function for a unit that is not an error
\* reply.
LogFn(op) ==
    IF op \in {"OpStreamRead", "OpRead"} THEN "log.LogRead"
    ELSE IF op = "OpWrite" THEN "log.LogWrite"
    ELSE "log.LogInfo"

\* The deferred function, first half: the handler has returned; resultSize
\* takes the unit's Size, the unit's Size is set back to orgSize, and the log
\* line is computed: of an error reply from the first resultSize bytes of the
\* payload, of any other unit from the unit as it now is.
DeferLog(c) ==
    /\ pc[c] = "idle"
    /\ local[c].phase = "handler"
    /\ local' = [local EXCEPT ![c].resultSize = pkg[c].Size, ![c].phase = "log"]
    /\ pkg' = [pkg EXCEPT ![c].Size = local[c].orgSize]
    /\ calls' = [calls EXCEPT ![c] =
           Append(@, IF IsErrPack(pkg[c])
                     THEN Call("log.LogErrorf", <<pkg[c].Size>>, TRUE)
                     ELSE Call(LogFn(pkg[c].Opcode), <<local[c].orgSize>>, TRUE))]
    /\ UNCHANGED <<space, disks, store, compactTasks, masterAddrs, pc, conn>>

\* Mutant: the unit's Size is not set to resultSize after the log.
DeferReturnKeepOrg(c) ==
    /\ local[c].phase = "log"
    /\ local' = [local EXCEPT ![c].phase = "returned"]
    /\ calls' = [calls EXCEPT ![c] = Append(@, Call("ump.AfterTP", <<>>, ~IsErrPack(pkg[c])))]
    /\ UNCHANGED <<space, disks, store, compactTasks, masterAddrs, pc, pkg, conn>>

\* The deferred function, second half: pkg.Size = resultSize, ump.AfterTP,
\* and operatePacket returns.
DeferReturn(c) ==
    /\ local[c].phase = "log"
    /\ pkg' = [pkg EXCEPT ![c].Size = local[c].resultSize]
    /\ local' = [local EXCEPT ![c].phase = "returned"]
    /\ calls' = [calls EXCEPT ![c] = Append(@, Call("ump.AfterTP", <<>>, ~IsErrPack(pkg[c])))]
    /\ UNCHANGED <<space, disks, store, compactTasks, masterAddrs, pc, conn>>

\* The node as a connection's first request finds it: as in Init, and the
\* partition's disk may already hold an admitted compaction task.
InitDispatch ==
    /\ space \in [{1} -> [status : Statuses, available : Availables, disk : DiskPaths]]
    /\ disks = {"disk1"}
    /\ store = {}
    /\ compactTasks \in {[d \in DiskPaths |-> <<>>],
                         [d \in DiskPaths |-> IF d = "disk1" THEN <<TaskKey(1, 1)>> ELSE <<>>]}
    /\ masterAddrs = {}
    /\ pc = [c \in Conns |-> "idle"]
    /\ pkg = [c \in Conns |-> IdlePacket]
    /\ calls = [c \in Conns |-> <<>>]
    /\ local = [c \in Conns |-> NoLocal]
    /\ conn = [c \in Conns |-> [frames |-> <<>>, closed |-> FALSE]]

NextDispatch ==
    \/ operatePacket(MainConn)
    \/ StreamLoopExit(MainConn)
    \/ StreamReadChunk(MainConn)
    \/ StreamSendError(MainConn)
    \/ StreamSendFrame(MainConn)
    \/ CompactCheck(MainConn)
    \/ CompactPut(MainConn)
    \/ DeferLog(MainConn)
    \/ DeferReturn(MainConn)

SpecDispatch == InitDispatch /\ [][NextDispatch]_vars

\* ------------------------------------------------ RequestDispatcher claims

\* The opcode table of the external interface: the handler of each opcode of
\* the closed set.
OpcodeTable ==
    [op \in Opcodes |->
        IF op = "OpCreateFile" THEN "handleCreateFile"
        ELSE IF op = "OpWrite" THEN "handleWrite"
        ELSE IF op = "OpRead" THEN "handleRead"
        ELSE IF op = "OpStreamRead" THEN "handleStreamRead"
        ELSE IF op = "OpBlobFileRepairRead" THEN "handleBlobFileRepairRead"
        ELSE IF op = "OpMarkDelete" THEN "handleMarkDelete"
        ELSE IF op = "OpNotifyCompactBlobFile" THEN "handleNotifyCompact"
        ELSE IF op = "OpNotifyExtentRepair" THEN "handleNotifyExtentRepair"
        ELSE IF op = "OpNotifyBlobRepair" THEN "handleNotifyBlobRepair"
        ELSE IF op = "OpGetWatermark" THEN "handleGetWatermark"
        ELSE IF op = "OpExtentStoreGetAllWaterMark" THEN "handleExtentStoreGetAllWatermark"
        ELSE IF op = "OpBlobStoreGetAllWaterMark" THEN "handleBlobStoreGetAllWatermark"
        ELSE IF op = "OpCreateDataPartition" THEN "handleCreateDataPartition"
        ELSE IF op = "OpDeleteDataPartition" THEN "handleDeleteDataPartition"
        ELSE IF op = "OpLoadDataPartition" THEN "handleLoadDataPartition"
        ELSE IF op = "OpDataNodeHeartbeat" THEN "handleHeartbeats"
        ELSE "handleGetDataPartitionMetrics"]

\* The calls of the deferred function of operatePacket.
DeferCalls == {"log.LogErrorf", "log.LogRead", "log.LogWrite", "log.LogInfo", "ump.AfterTP"}

\* The positions in the call log of connection c of the calls a handler made.
HandlerCalls(c) == {i \in 1..Len(calls[c]) : calls[c][i].fn \notin DeferCalls}

\* C16: a request unit whose opcode is in the closed set was handed to one
\* handler, the one the opcode table gives for the opcode; a unit with any
\* other opcode was handed to no handler, no call was made for it, and it
\* became the error reply whose message is the unknown-opcode text followed
\* by the opcode's number in decimal.
C16_OneHandlerPerOpcode ==
    \A c \in Conns : local[c].phase # "none" =>
        IF pkg[c].Opcode \in Opcodes
        THEN /\ local[c].handler = OpcodeTable[pkg[c].Opcode]
             /\ local[c].handler # ""
        ELSE /\ local[c].handler = ""
             /\ HandlerCalls(c) = {}
             /\ IsErrPack(pkg[c])
             /\ \E n \in 0..255 :
                    /\ pkg[c].Opcode = OpName(n)
                    /\ pkg[c].Data = ErrorUnknownOp \o Itoa(n)

\* operatePacket returned the error reply for the opcode byte 240.
C16_Witness ==
    /\ local[MainConn].phase = "returned"
    /\ pkg[MainConn].Opcode \notin Opcodes
    /\ local[MainConn].handler = ""
    /\ pkg[MainConn].Data = "unknown opcode: 240"

\* C17: when operatePacket has returned, the unit's Size is the size the
\* handler left in it (for an error reply: the length of the error message),
\* whatever the request's size was.  The request's size is in the unit only
\* while the deferred function computes the log line; the log line of an
\* error reply is built from the payload cut to the size the handler left,
\* the log line of any other unit is computed with the request's size.
C17_SizeRestored ==
    /\ [](\A c \in Conns :
            /\ local[c].phase = "log" =>
                /\ pkg[c].Size = local[c].orgSize
                /\ LET last == calls[c][Len(calls[c])] IN
                   IF IsErrPack(pkg[c])
                   THEN last = Call("log.LogErrorf", <<local[c].resultSize>>, TRUE)
                   ELSE last = Call(LogFn(pkg[c].Opcode), <<local[c].orgSize>>, TRUE)
            /\ local[c].phase = "returned" =>
                /\ pkg[c].Size = local[c].resultSize
                /\ IsErrPack(pkg[c]) => pkg[c].Size = ErrMsgLen)
    /\ [][\A c \in Conns :
            /\ (local[c].phase = "handler" /\ local'[c].phase = "log") =>
                   /\ local'[c].resultSize = pkg[c].Size
                   /\ local'[c].orgSize = local[c].orgSize
            /\ (local[c].phase = "log" /\ local'[c].phase = "returned") =>
                   /\ local'[c].resultSize = local[c].resultSize
                   /\ pkg'[c] = [pkg[c] EXCEPT !.Size = local[c].resultSize]]_vars

\* A full-block Write was rejected: operatePacket returned the error reply
\* with the size of the error message, not the request's block size.
C17_Witness ==
    /\ local[MainConn].phase = "returned"
    /\ pkg[MainConn].Opcode = "OpWrite"
    /\ IsErrPack(pkg[MainConn])
    /\ local[MainConn].orgSize = BlockSize
    /\ pkg[MainConn].Size = ErrMsgLen
    /\ pkg[MainConn].Size # local[MainConn].orgSize
====
